---- MODULE Spec2Model ----
(***************************************************************************)
(* CORAL implementation recipe (src/coral-implementation-recipe.ipynb).    *)
(*                                                                         *)
(* The recipe consists of pure functions: label_to_levels (the Level       *)
(* Encoder), loss_fn1 / loss_fn2 (the Rank Loss) and the two lines that    *)
(* compute predicted_labels (the Rank Decoder).  The model is a call       *)
(* harness: the initial state is a call of one of these functions on       *)
(* arguments drawn from bounded sets, an action runs the call, and the     *)
(* state records the function called, its arguments and what the call      *)
(* produced.  Two more actions pass the result of one call on as the       *)
(* argument of the next, as the notebook does.                             *)
(*                                                                         *)
(* float32 tensor entries are fixed-point integers in units of 1/Scale.    *)
(* A 1-D tensor is a sequence, a 2-D tensor a sequence of rows.            *)
(* Python indices start at 0, sequence indices at 1: tensor entry i is     *)
(* element i+1 of the sequence.                                            *)
(***************************************************************************)
EXTENDS Integers, Sequences, FiniteSets

VARIABLES pc, fn, arg, ret, origin, globals, stdout, iters

vars == <<pc, fn, arg, ret, origin, globals, stdout, iters>>

(***************************************************************************)
(* Bounds of the enumerated inputs.                                        *)
(***************************************************************************)
\* label_to_levels is called with num_classes in 0..MaxClasses
MaxClasses == 5
\* enumerated probability rows have 1..MaxLen entries
MaxLen == 3
\* enumerated probability batches have 1..MaxBatch rows
MaxBatch == 2
\* the vectors given to the loss functions have 1..MaxLossLen entries
\* (1..MaxLossLen+1 where the three lengths are chosen independently)
MaxLossLen == 2
\* the logits (and levels) given to the loss functions have at most
\* MaxLossCells entries over all rows
MaxLossCells == 4
MaxBatchClasses == 3
MaxBatchCells == 4
\* the enumerated small datasets hold up to MaxSmallBatches full batches
MaxSmallBatches == 2

(***************************************************************************)
(* Fixed-point float32: the value x is the integer x * Scale.              *)
(***************************************************************************)
Scale == 10000
One == Scale
Zero == 0
\* the literal 0.5 of "probas > 0.5"
Half == Scale \div 2

\* torch.tensor(list, dtype=torch.float32): every Python int becomes a float
torch_tensor(list) ==
    IF Len(list) = 0 THEN <<>> ELSE [i \in 1..Len(list) |-> list[i] * Scale]

\* Python's [x]*n: n copies of x, the empty list when n <= 0
ListRepeat(x, n) ==
    IF n <= 0 THEN <<>> ELSE [i \in 1..n |-> x]

(***************************************************************************)
(* 1) label_to_levels                                                      *)
(***************************************************************************)
\* mutant: one level too many ([1]*(label+1))
label_to_levels_off_by_one(label, num_classes) ==
    torch_tensor(ListRepeat(1, label + 1) \o ListRepeat(0, num_classes - 2 - label))

\* mutant: the zeros are put before the ones
label_to_levels_zeros_first(label, num_classes) ==
    torch_tensor(ListRepeat(0, num_classes - 1 - label) \o ListRepeat(1, label))

\* mutant: every level is set, whatever the label
label_to_levels_all_ones(label, num_classes) ==
    torch_tensor(ListRepeat(1, num_classes - 1))

\*  levels = [1]*label + [0]*(num_classes - 1 - label)
\*  levels = torch.tensor(levels, dtype=torch.float32)
label_to_levels(label, num_classes) ==
    torch_tensor(ListRepeat(1, label) \o ListRepeat(0, num_classes - 1 - label))

(***************************************************************************)
(* 4) predicted labels                                                     *)
(***************************************************************************)
\* mutant: the comparison is inverted
predict_levels_inverted(probas) ==
    [r \in 1..Len(probas) |->
        [c \in 1..Len(probas[r]) |-> probas[r][c] < Half]]

\* mutant: the comparison is not strict
predict_levels_ge(probas) ==
    [r \in 1..Len(probas) |->
        [c \in 1..Len(probas[r]) |-> probas[r][c] >= Half]]

\*  predict_levels = probas > 0.5      (elementwise, a tensor of booleans)
predict_levels(probas) ==
    [r \in 1..Len(probas) |->
        [c \in 1..Len(probas[r]) |-> probas[r][c] > Half]]

\* torch.sum over a 1-D boolean tensor: True counts 1, False counts 0
RECURSIVE SumBools(_)
SumBools(row) ==
    IF Len(row) = 0 THEN 0
    ELSE (IF Head(row) THEN 1 ELSE 0) + SumBools(Tail(row))

\* the number of True entries of a 2-D boolean tensor
RECURSIVE SumAll(_)
SumAll(t) ==
    IF Len(t) = 0 THEN 0 ELSE SumBools(Head(t)) + SumAll(Tail(t))

\* mutant: torch.sum(t) without dim, the total over the whole batch
torch_sum_no_dim(t) ==
    [r \in 1..Len(t) |-> SumAll(t)]

\*  torch.sum(t, dim=1): one sum per row
torch_sum_dim1(t) ==
    [r \in 1..Len(t) |-> SumBools(t[r])]

\*  predict_levels = probas > 0.5
\*  predicted_labels = torch.sum(predict_levels, dim=1)
predicted_labels(probas) ==
    torch_sum_dim1(predict_levels(probas))

(***************************************************************************)
(* 2) loss functions                                                       *)
(***************************************************************************)
\* round-to-nearest division of fixed-point intermediate results
RoundDiv(a, b) == (2 * a + b) \div (2 * b)

\* float32 inf and nan (log(0) is -inf, inf*0 is nan); every finite value of
\* the model lies strictly between -inf and inf
PosInf == 1000000000
NegInf == 0 - PosInf
NaN == 2000000000
IsInf(a) == a = PosInf \/ a = NegInf
IsFinite(a) == NegInf < a /\ a < PosInf

\* float negation, sum and difference
Neg(a) == IF a = NaN THEN NaN ELSE 0 - a
Add(a, b) ==
    IF a = NaN \/ b = NaN THEN NaN
    ELSE IF IsInf(a) THEN (IF IsInf(b) /\ b # a THEN NaN ELSE a)
    ELSE IF IsInf(b) THEN b
    ELSE a + b
Sub(a, b) == Add(a, Neg(b))

\* the product of two fixed-point floats: a * b / Scale rounded to nearest
\* (computed on the quotient and remainder of a, to stay within 32 bits)
Mul(a, b) ==
    IF a = NaN \/ b = NaN THEN NaN
    ELSE IF IsInf(a) \/ IsInf(b)
         THEN (IF a = 0 \/ b = 0 THEN NaN
               ELSE IF (a > 0) = (b > 0) THEN PosInf ELSE NegInf)
    ELSE (a \div Scale) * b + RoundDiv((a % Scale) * b, Scale)

\* a float divided by a positive integer
DivInt(a, n) == IF IsFinite(a) THEN RoundDiv(a, n) ELSE a

\* F.logsigmoid(x) on the logits of the model, in float32, to 4 decimals
LogSigmoid(x) ==
    CASE x = 0 - 18000 -> 0 - 19530
      [] x = 21000 -> 0 - 1155
      [] x = 18000 -> 0 - 1530
      [] x = 0 - 21000 -> 0 - 22155
      [] x = 19000 -> 0 - 1394
      [] x = 0 - 10000 -> 0 - 13133
      [] x = 0 - 15000 -> 0 - 17014
      [] x = 0 - 13000 -> 0 - 15410
      [] x = 17000 -> 0 - 1678
      [] x = 16000 -> 0 - 1839
      [] x = 200000 -> 0

\* torch.log(torch.sigmoid(x)), in float32, to 4 decimals
LogOfSigmoid(x) ==
    CASE x = 0 - 18000 -> 0 - 19530
      [] x = 21000 -> 0 - 1155
      [] x = 18000 -> 0 - 1530
      [] x = 0 - 21000 -> 0 - 22155
      [] x = 19000 -> 0 - 1394
      [] x = 0 - 10000 -> 0 - 13133
      [] x = 0 - 15000 -> 0 - 17014
      [] x = 0 - 13000 -> 0 - 15410
      [] x = 17000 -> 0 - 1678
      [] x = 16000 -> 0 - 1839
      [] x = 200000 -> 0

\* torch.log(1 - torch.sigmoid(x)), in float32, to 4 decimals; the float32
\* sigmoid of 20.0 is exactly 1.0, and the log of 1 - 1.0 is -inf
LogOfOneMinusSigmoid(x) ==
    CASE x = 0 - 18000 -> 0 - 1530
      [] x = 21000 -> 0 - 22155
      [] x = 18000 -> 0 - 19530
      [] x = 0 - 21000 -> 0 - 1155
      [] x = 19000 -> 0 - 20394
      [] x = 0 - 10000 -> 0 - 3133
      [] x = 0 - 15000 -> 0 - 2014
      [] x = 0 - 13000 -> 0 - 2410
      [] x = 17000 -> 0 - 18678
      [] x = 16000 -> 0 - 17839
      [] x = 200000 -> NegInf

NumRows(t) == Len(t)
NumCols(t) == Len(t[1])

\* torch broadcasting of one dimension: the sizes are equal or one of them is 1
Broadcastable(a, b) == a = b \/ a = 1 \/ b = 1
BroadcastDim(a, b) == IF a = 1 THEN b ELSE a

\* entry (r, c) of a 2-D tensor broadcast to a larger shape
At2(t, r, c) ==
    t[IF NumRows(t) = 1 THEN 1 ELSE r][IF NumCols(t) = 1 THEN 1 ELSE c]

\* entry c of a 1-D tensor broadcast along the last dimension
At1(v, c) == v[IF Len(v) = 1 THEN 1 ELSE c]

\* the elementwise operations of a loss function succeed: logits and levels
\* broadcast together, and the result broadcasts with imp (a 1-D tensor is
\* aligned with the last dimension); otherwise torch raises a RuntimeError
ShapesBroadcast(logits, levels, imp) ==
    /\ Broadcastable(NumRows(logits), NumRows(levels))
    /\ Broadcastable(NumCols(logits), NumCols(levels))
    /\ Broadcastable(BroadcastDim(NumCols(logits), NumCols(levels)), Len(imp))

OutRows(logits, levels) == BroadcastDim(NumRows(logits), NumRows(levels))
OutCols(logits, levels, imp) ==
    BroadcastDim(BroadcastDim(NumCols(logits), NumCols(levels)), Len(imp))

\* mutant: the rewrite of log(1 - sigmoid(x)) forgets to subtract the logits
Term2_without_logits(logits, levels, imp, r, c) ==
    LET x == At2(logits, r, c)
        v == At2(levels, r, c)
    IN  Mul(Add(Mul(LogSigmoid(x), v), Mul(LogSigmoid(x), Sub(One, v))),
            At1(imp, c))

\*  (F.logsigmoid(logits)*levels
\*     + (F.logsigmoid(logits) - logits)*(1-levels))*imp     at entry (r, c)
Term2(logits, levels, imp, r, c) ==
    LET x == At2(logits, r, c)
        v == At2(levels, r, c)
    IN  Mul(Add(Mul(LogSigmoid(x), v),
                    Mul(Sub(LogSigmoid(x), x), Sub(One, v))),
            At1(imp, c))

\*  (torch.log(torch.sigmoid(logits))*levels
\*     + torch.log(1 - torch.sigmoid(logits))*(1-levels))*imp   at entry (r, c)
Term1(logits, levels, imp, r, c) ==
    LET x == At2(logits, r, c)
        v == At2(levels, r, c)
    IN  Mul(Add(Mul(LogOfSigmoid(x), v),
                    Mul(LogOfOneMinusSigmoid(x), Sub(One, v))),
            At1(imp, c))

\* the sum of f[1] .. f[n]
RECURSIVE SumTo(_, _)
SumTo(f, n) == IF n = 0 THEN 0 ELSE f[n] + SumTo(f, n - 1)

\* the float sum of f[1] .. f[n]
RECURSIVE FloatSum(_, _)
FloatSum(f, n) == IF n = 0 THEN 0 ELSE Add(FloatSum(f, n - 1), f[n])

\* mutant: the batch is summed, not averaged
torch_mean_as_sum(val) == FloatSum(val, Len(val))

\* torch.mean of a 1-D tensor
torch_mean(val) == DivInt(FloatSum(val, Len(val)), Len(val))

\*  val = -torch.sum((...)*imp, dim=1);  return torch.mean(val)
loss_fn1(logits, levels, imp) ==
    IF ~ShapesBroadcast(logits, levels, imp) THEN [raised |-> TRUE]
    ELSE LET cols == OutCols(logits, levels, imp)
             val == [r \in 1..OutRows(logits, levels) |->
                        Neg(FloatSum([c \in 1..cols |->
                                     Term1(logits, levels, imp, r, c)], cols))]
         IN  [raised |-> FALSE, value |-> torch_mean(val)]

\*  val = -torch.sum((...)*imp, dim=1);  return torch.mean(val)
loss_fn2(logits, levels, imp) ==
    IF ~ShapesBroadcast(logits, levels, imp) THEN [raised |-> TRUE]
    ELSE LET cols == OutCols(logits, levels, imp)
             val == [r \in 1..OutRows(logits, levels) |->
                        Neg(FloatSum([c \in 1..cols |->
                                     Term2(logits, levels, imp, r, c)], cols))]
         IN  [raised |-> FALSE, value |-> torch_mean(val)]

(***************************************************************************)
(* Inputs                                                                  *)
(***************************************************************************)
\* labels, in and out of range
LabelInputs == (0 - 2)..(MaxClasses + 1)
ClassCountInputs == 0..MaxClasses

\* probabilities: 0.0, exactly 0.5 and 1.0
ProbVals == {Zero, Half, One}

Rows(vals, n) == [1..n -> vals]
Batches(vals, b, n) == [1..b -> Rows(vals, n)]

ProbaBatches ==
    UNION {Batches(ProbVals, b, n) : b \in 1..MaxBatch, n \in 1..MaxLen}

\* the probas printed by the bias [0, 1, 2, 3] test
ExampleProbas == << <<3613, 6059, 8069, 9191>> >>

\* logits -1.8, 2.1 and 20.0, levels 0.0 and 1.0, weights -1.0, 1.0 and 2.0
LogitVals == {0 - 18000, 21000, 200000}
LevelVals == {Zero, One}
WeightVals == {0 - One, One, 2 * One}

\* logits, levels and imp of matching shapes: b examples of n entries each
WellShapedLossArgs ==
    UNION {[logits : Batches(LogitVals, b, n),
            levels : Batches(LevelVals, b, n),
            imp : Rows(WeightVals, n)] :
           <<b, n>> \in {t \in (1..MaxLossCells) \X (1..MaxLossLen) :
                            t[1] * t[2] <= MaxLossCells}}

\* one example whose logits, levels and imp have independently chosen
\* lengths; the logits are all 2.1
MisShapedLossArgs ==
    {[logits |-> << [i \in 1..n |-> 21000] >>,
      levels |-> << [i \in 1..m |-> v] >>,
      imp |-> [i \in 1..k |-> w]] :
        <<n, m, k>> \in {t \in (1..MaxLossLen + 1) \X (1..MaxLossLen + 1)
                                 \X (1..MaxLossLen + 1) :
                            ~(t[1] = t[2] /\ t[2] = t[3])},
        v \in LevelVals, w \in WeightVals}

\* the logits, levels and importance_weights of the notebook's example
ExampleLossArgs ==
    [logits |-> << <<21000, 18000, 0 - 21000, 0 - 18000>>,
                   <<19000, 0 - 10000, 0 - 15000, 0 - 13000>>,
                   <<19000, 18000, 17000, 16000>> >>,
     levels |-> << <<One, One, Zero, Zero>>,
                   <<One, Zero, Zero, Zero>>,
                   <<One, One, One, One>> >>,
     imp |-> <<One, One, One, One>>]

\* the (logits, levels, imp) a loss function is called with
LossArgs == WellShapedLossArgs \cup MisShapedLossArgs \cup {ExampleLossArgs}

NoCall == [fn |-> "none"]

\* the notebook namespace before any cell has run
NoGlobals == [name \in {} |-> 0]

\* no for loop is running
NoIters == [name \in {} |-> 0]

(***************************************************************************)
(* State machine                                                           *)
(***************************************************************************)
Init ==
    /\ pc = "called"
    /\ globals = NoGlobals
    /\ stdout = <<>>
    /\ iters = NoIters
    /\ \/ /\ fn = "label_to_levels"
          /\ arg \in [label : LabelInputs, num_classes : ClassCountInputs]
       \/ /\ fn = "predicted_labels"
          /\ arg \in [probas : ProbaBatches \cup {ExampleProbas}]
    /\ ret = NoCall
    /\ origin = NoCall

\* the call label_to_levels(label, num_classes=K) runs and returns
CallLabelToLevels ==
    /\ pc = "called"
    /\ UNCHANGED <<globals, stdout, iters>>
    /\ fn = "label_to_levels"
    /\ pc' = "returned"
    /\ ret' = [raised |-> FALSE,
               value |-> label_to_levels(arg.label, arg.num_classes)]
    /\ UNCHANGED <<fn, arg, origin>>

\* the two decoding lines run on a probas tensor
CallPredictedLabels ==
    /\ pc = "called"
    /\ UNCHANGED <<globals, stdout, iters>>
    /\ fn = "predicted_labels"
    /\ pc' = "returned"
    /\ ret' = [raised |-> FALSE, value |-> predicted_labels(arg.probas)]
    /\ UNCHANGED <<fn, arg, origin>>

\* the levels a call of label_to_levels returned, stacked into a batch of
\* one example and given to the decoding lines as probas
FeedLevelsToDecoder ==
    /\ pc = "returned"
    /\ UNCHANGED <<globals, stdout, iters>>
    /\ fn = "label_to_levels"
    /\ ~ret.raised
    /\ pc' = "returned"
    /\ LET probas == <<ret.value>> IN
        /\ fn' = "predicted_labels"
        /\ arg' = [probas |-> probas]
        /\ ret' = [raised |-> FALSE, value |-> predicted_labels(probas)]
        /\ origin' = [fn |-> "label_to_levels",
                      label |-> arg.label, num_classes |-> arg.num_classes]

\* the label predicted for one example of a batch, given to label_to_levels
\* with the class count of that example's probas row
FeedPredictionToEncoder ==
    /\ pc = "returned"
    /\ UNCHANGED <<globals, stdout, iters>>
    /\ fn = "predicted_labels"
    /\ ~ret.raised
    /\ pc' = "returned"
    /\ \E r \in 1..Len(arg.probas) :
        LET row == arg.probas[r]
            label == ret.value[r]
            K == Len(row) + 1
        IN  /\ fn' = "label_to_levels"
            /\ arg' = [label |-> label, num_classes |-> K]
            /\ ret' = [raised |-> FALSE, value |-> label_to_levels(label, K)]
            /\ origin' = [fn |-> "predicted_labels", probas |-> row]

Next ==
    \/ CallLabelToLevels
    \/ CallPredictedLabels
    \/ FeedLevelsToDecoder
    \/ FeedPredictionToEncoder

Spec == Init /\ [][Next]_vars

(***************************************************************************)
(* State machine of the loss functions                                     *)
(***************************************************************************)
\* calls that pass logits and levels and no imp
NoImpLossArgs == {[logits |-> a.logits, levels |-> a.levels] : a \in WellShapedLossArgs}

\* def loss_fn1(logits, levels, imp): a call without imp raises TypeError
call_loss_fn1(a) ==
    IF "imp" \in DOMAIN a THEN loss_fn1(a.logits, a.levels, a.imp)
    ELSE [raised |-> TRUE]

\* def loss_fn2(logits, levels, imp): a call without imp raises TypeError
call_loss_fn2(a) ==
    IF "imp" \in DOMAIN a THEN loss_fn2(a.logits, a.levels, a.imp)
    ELSE [raised |-> TRUE]

InitLoss ==
    /\ pc = "called"
    /\ globals = NoGlobals
    /\ stdout = <<>>
    /\ iters = NoIters
    /\ fn \in {"loss_fn1", "loss_fn2"}
    /\ arg \in LossArgs \cup NoImpLossArgs
    /\ ret = NoCall
    /\ origin = NoCall

\* the call loss_fn1(logits, levels, imp) runs and returns or raises
CallLossFn1 ==
    /\ pc = "called"
    /\ UNCHANGED <<globals, stdout, iters>>
    /\ fn = "loss_fn1"
    /\ pc' = "returned"
    /\ ret' = call_loss_fn1(arg)
    /\ UNCHANGED <<fn, arg, origin>>

\* the call loss_fn2(logits, levels, imp) runs and returns or raises
CallLossFn2 ==
    /\ pc = "called"
    /\ UNCHANGED <<globals, stdout, iters>>
    /\ fn = "loss_fn2"
    /\ pc' = "returned"
    /\ ret' = call_loss_fn2(arg)
    /\ UNCHANGED <<fn, arg, origin>>

\* after loss_fn1 returned, loss_fn2 is called on the same logits, levels and
\* imp (the notebook's cells 6 and 8)
CallLossFn2OnSameArgs ==
    /\ pc = "returned"
    /\ UNCHANGED <<globals, stdout, iters>>
    /\ fn = "loss_fn1"
    /\ origin = NoCall
    /\ pc' = "returned"
    /\ fn' = "loss_fn2"
    /\ ret' = call_loss_fn2(arg)
    /\ origin' = [fn |-> "loss_fn1", ret |-> ret]
    /\ UNCHANGED arg

\* after loss_fn2 returned a batch's loss, it is called on every example
\* alone, as a batch of one, with the same imp
CallLossFn2OnEachExample ==
    /\ pc = "returned"
    /\ UNCHANGED <<globals, stdout, iters>>
    /\ fn = "loss_fn2"
    /\ origin = NoCall
    /\ ~ret.raised
    /\ NumRows(arg.logits) = NumRows(arg.levels)
    /\ pc' = "returned"
    /\ fn' = "loss_fn2 on each example"
    /\ ret' = [raised |-> FALSE,
               values |-> [r \in 1..NumRows(arg.logits) |->
                             loss_fn2(<<arg.logits[r]>>, <<arg.levels[r]>>,
                                      arg.imp).value]]
    /\ origin' = [fn |-> "loss_fn2", ret |-> ret]
    /\ UNCHANGED arg

NextLoss ==
    \/ CallLossFn1
    \/ CallLossFn2
    \/ CallLossFn2OnSameArgs
    \/ CallLossFn2OnEachExample

SpecLoss == InitLoss /\ [][NextLoss]_vars

(***************************************************************************)
(* Properties                                                              *)
(***************************************************************************)
\* ---------------------------------------------------------------------
\* One batch through label conversion, probabilities, decoding and loss

\* torch.sigmoid on the fixed-point grid, for the logits the model draws
Sigmoid(x) ==
    CASE x = 0 - 18000 -> 1419
      [] x = 21000 -> 8909
      [] x = 200000 -> One
      [] x = 0 - 5699 -> 3613
      [] x = 4301 -> 6059
      [] x = 14301 -> 8069
      [] x = 24301 -> 9191
      [] x = 0 - 15699 -> 1722
      [] x = 0 - 9213 -> 2847
      [] x = 787 -> 5197
      [] x = 10787 -> 7462
      [] x = 20787 -> 8888
      [] x = 30787 -> 9560
      [] x = 0 - 10000 -> 2689
      [] x = 0 -> Half
      [] x = 10000 -> 7311
      [] x = 20000 -> 8808
      [] x = 30000 -> 9526
      [] x = 0 - 20000 -> 1192
      [] x = 40000 -> 9820

torch_sigmoid(logits) ==
    [r \in 1..Len(logits) |-> [c \in 1..Len(logits[r]) |-> Sigmoid(logits[r][c])]]

stack_levels_first_label(class_labels, num_classes) ==
    [r \in 1..Len(class_labels) |-> label_to_levels(class_labels[1], num_classes)]

\* levels = torch.stack([label_to_levels(label, NUM_CLASSES) for each label])
stack_levels(class_labels, num_classes) ==
    [r \in 1..Len(class_labels) |-> label_to_levels(class_labels[r], num_classes)]

\* what the recipe computes for one batch
BatchResult(a) ==
    [levels |-> stack_levels(a.class_labels, a.NUM_CLASSES),
     probas |-> torch_sigmoid(a.logits),
     predict_levels |-> predict_levels(torch_sigmoid(a.logits)),
     predicted_labels |-> predicted_labels(torch_sigmoid(a.logits)),
     cost |-> loss_fn2(a.logits, stack_levels(a.class_labels, a.NUM_CLASSES),
                       a.imp)]

Perms(n) == {p \in [1..n -> 1..n] : \A i, j \in 1..n : p[i] = p[j] => i = j}

\* the batch with its examples in the order p
Reordered(a, p) ==
    [a EXCEPT !.class_labels = [r \in 1..Len(p) |-> a.class_labels[p[r]]],
              !.logits = [r \in 1..Len(p) |-> a.logits[p[r]]]]

BatchLogitVals == {0 - 18000, 21000}
BatchWeightVals == {One, 2 * One}

BatchArgs ==
    UNION {UNION {
        {[NUM_CLASSES |-> k, class_labels |-> l, logits |-> x,
          imp |-> ListRepeat(w, k - 1)] :
            l \in [1..b -> 0..(k - 1)],
            x \in Batches(BatchLogitVals, b, k - 1),
            w \in BatchWeightVals} :
        b \in {b \in 1..MaxBatch : b * (k - 1) <= MaxBatchCells}} :
        k \in 2..MaxBatchClasses}

InitBatch ==
    /\ pc = "called"
    /\ globals = NoGlobals
    /\ stdout = <<>>
    /\ iters = NoIters
    /\ fn = "batch"
    /\ arg \in BatchArgs
    /\ ret = NoCall
    /\ origin = NoCall

RunBatch ==
    /\ pc = "called"
    /\ UNCHANGED <<globals, stdout, iters>>
    /\ fn = "batch"
    /\ pc' = "returned"
    /\ ret' = BatchResult(arg)
    /\ UNCHANGED <<fn, arg, origin>>

\* the same examples are run again in another order
RunReorderedBatch ==
    /\ pc = "returned"
    /\ UNCHANGED <<globals, stdout, iters>>
    /\ fn = "batch"
    /\ origin = NoCall
    /\ \E p \in Perms(Len(arg.class_labels)) :
        /\ arg' = Reordered(arg, p)
        /\ ret' = BatchResult(Reordered(arg, p))
        /\ origin' = [fn |-> "batch", perm |-> p, arg |-> arg, ret |-> ret]
    /\ UNCHANGED <<pc, fn>>

NextBatch ==
    \/ RunBatch
    \/ RunReorderedBatch

SpecBatch == InitBatch /\ [][NextBatch]_vars

\* ---------------------------------------------------------------------
\* The CORAL output layer

RECURSIVE Dot(_, _, _)
Dot(w, x, n) == IF n = 0 THEN 0 ELSE Dot(w, x, n - 1) + w[n] * x[n]

\* fc = torch.nn.Linear(in_features, 1, bias=False): one value per example
fc(weight, inputs) ==
    [r \in 1..Len(inputs) |-> <<RoundDiv(Dot(weight, inputs[r], Len(weight)), Scale)>>]

coral_logits_without_bias(weight, inputs, linear_1_bias) ==
    [r \in 1..Len(inputs) |->
        [c \in 1..Len(linear_1_bias) |-> fc(weight, inputs)[r][1]]]

coral_logits_minus_bias(weight, inputs, linear_1_bias) ==
    [r \in 1..Len(inputs) |->
        [c \in 1..Len(linear_1_bias) |->
            fc(weight, inputs)[r][1] - linear_1_bias[c]]]

\* logits = fc(x) + linear_1_bias: (B x 1) + (K-1) broadcasts to B x (K-1)
coral_logits(weight, inputs, linear_1_bias) ==
    [r \in 1..Len(inputs) |->
        [c \in 1..Len(linear_1_bias) |->
            fc(weight, inputs)[r][1] + linear_1_bias[c]]]

\* the layer's outputs followed by the decoding lines
LayerResult(a) ==
    [logits |-> coral_logits(a.weight, a.inputs, a.linear_1_bias),
     probas |-> torch_sigmoid(coral_logits(a.weight, a.inputs, a.linear_1_bias)),
     predict_levels |->
        predict_levels(torch_sigmoid(coral_logits(a.weight, a.inputs, a.linear_1_bias))),
     predicted_labels |->
        predicted_labels(torch_sigmoid(coral_logits(a.weight, a.inputs, a.linear_1_bias)))]

\* the notebook's pre-defined weights and its two layer inputs
ExampleWeight == <<3019, 0 - 1284, 0 - 2542, 0 - 886, 1354, 1257, 0 - 2183,
                   0 - 2714, 0 - 1859, 35>>
ExampleInputs ==
    << <<2769, 5538, 8187, 5455, 3085, 7225, 7978, 8664, 2754, 5541>>,
       <<4267, 5409, 2538, 1381, 3889, 7500, 249, 1347, 494, 935>> >>
ZeroBias == <<Zero, Zero, Zero, Zero>>
ExampleBias == <<Zero, One, 2 * One, 3 * One>>

SharedScores == {0 - 5699, 787, 0 - One, Zero, One}
BiasVals == {0 - One, Zero, One}

LayerArgs ==
    {[weight |-> <<One>>, inputs |-> << <<g>> >>, linear_1_bias |-> b] :
        g \in SharedScores,
        b \in UNION {[1..(k - 1) -> BiasVals] : k \in 2..MaxClasses}}
    \cup {[weight |-> ExampleWeight, inputs |-> ExampleInputs, linear_1_bias |-> b] :
            b \in {ZeroBias, ExampleBias}}

InitLayer ==
    /\ pc = "called"
    /\ globals = NoGlobals
    /\ stdout = <<>>
    /\ iters = NoIters
    /\ fn = "coral_layer"
    /\ arg \in LayerArgs
    /\ ret = NoCall
    /\ origin = NoCall

RunLayer ==
    /\ pc = "called"
    /\ UNCHANGED <<globals, stdout, iters>>
    /\ fn = "coral_layer"
    /\ pc' = "returned"
    /\ ret' = LayerResult(arg)
    /\ UNCHANGED <<fn, arg, origin>>

NextLayer == RunLayer

SpecLayer == InitLayer /\ [][NextLayer]_vars

\* ---------------------------------------------------------------------
\* The notebook run top to bottom. globals is the notebook's namespace,
\* stdout what its cells printed, iters the position of the running for
\* loops. The cells 1, 4 and 7 only import and define the functions above.

\* the assignments name = value of the record bound, made in the namespace g
Bind(g, bound) ==
    [n \in DOMAIN g \cup DOMAIN bound |->
        IF n \in DOMAIN bound THEN bound[n] ELSE g[n]]

\* a tensor in the namespace: its size and its entries
Tensor1(data) == [size |-> <<Len(data)>>, data |-> data, batch |-> <<>>]
Tensor2(data) ==
    [size |-> <<Len(data), Len(data[1])>>, data |-> data, batch |-> <<>>]

\* a tensor of the training loop: its size and the batch (epoch and index)
\* it was computed from; its entries are left out
BatchTensor(size, batch) == [size |-> size, data |-> <<>>, batch |-> batch]

torch_ones(n) == ListRepeat(One, n)

ExampleClassLabels == <<2, 1, 4>>
ExampleLogits ==
    << <<21000, 18000, 0 - 21000, 0 - 18000>>,
       <<19000, 0 - 10000, 0 - 15000, 0 - 13000>>,
       <<19000, 18000, 17000, 16000>> >>

\* In[2]: NUM_CLASSES = 5 and the levels of the class labels [2, 1, 4]
Cell2 ==
    /\ pc = "In[2]"
    /\ pc' = "In[3]"
    /\ globals' =
         Bind(globals,
              [NUM_CLASSES |-> 5,
               class_labels |-> Tensor1(ExampleClassLabels),
               levels |-> Tensor2(stack_levels(ExampleClassLabels, 5))])
    /\ stdout' = Append(stdout, [Out2 |-> stack_levels(ExampleClassLabels, 5)])
    /\ UNCHANGED <<fn, arg, ret, origin, iters>>

\* In[3]: importance_weights = torch.ones(NUM_CLASSES-1, dtype=torch.float)
Cell3 ==
    /\ pc = "In[3]"
    /\ pc' = "In[5]"
    /\ globals' = Bind(globals,
                       [importance_weights |->
                            Tensor1(torch_ones(globals.NUM_CLASSES - 1))])
    /\ UNCHANGED <<fn, arg, ret, origin, stdout, iters>>

\* In[5]: logits = torch.tensor([[2.1, 1.8, -2.1, -1.8], ...])
Cell5 ==
    /\ pc = "In[5]"
    /\ pc' = "In[6]"
    /\ globals' = Bind(globals, [logits |-> Tensor2(ExampleLogits)])
    /\ UNCHANGED <<fn, arg, ret, origin, stdout, iters>>

\* In[6]: loss_fn1(logits=logits, levels=levels, imp=importance_weights)
Cell6 ==
    /\ pc = "In[6]"
    /\ pc' = "In[8]"
    /\ stdout' = Append(stdout,
                        [Out6 |-> loss_fn1(globals.logits.data,
                                           globals.levels.data,
                                           globals.importance_weights.data)])
    /\ UNCHANGED <<fn, arg, ret, origin, globals, iters>>

\* In[8]: loss_fn2(logits=logits, levels=levels, imp=importance_weights)
Cell8 ==
    /\ pc = "In[8]"
    /\ pc' = "In[9]"
    /\ stdout' = Append(stdout,
                        [Out8 |-> loss_fn2(globals.logits.data,
                                           globals.levels.data,
                                           globals.importance_weights.data)])
    /\ UNCHANGED <<fn, arg, ret, origin, globals, iters>>

\* In[9]: the layer with pre-defined weights and a zero bias
Cell9 ==
    /\ pc = "In[9]"
    /\ pc' = "In[10]"
    /\ LET bias == ListRepeat(Zero, 5 - 1)
           out == coral_logits(ExampleWeight, ExampleInputs, bias)
       IN /\ globals' =
               Bind(globals,
                    [num_classes |-> 5,
                     linear_1_bias |-> Tensor1(bias),
                     logits |-> Tensor2(out),
                     probas |-> Tensor2(torch_sigmoid(out))])
          /\ stdout' = stdout \o <<[Logits |-> out[1]],
                                   [Probas |-> torch_sigmoid(out)[1]]>>
    /\ UNCHANGED <<fn, arg, ret, origin, iters>>

\* In[10]: the same layer with the bias [0., 1., 2., 3.]
Cell10 ==
    /\ pc = "In[10]"
    /\ pc' = "In[11]"
    /\ LET out == coral_logits(ExampleWeight, ExampleInputs, ExampleBias)
       IN /\ globals' =
               Bind(globals,
                    [linear_1_bias |-> Tensor1(ExampleBias),
                     logits |-> Tensor2(out),
                     probas |-> Tensor2(torch_sigmoid(out))])
          /\ stdout' = stdout \o <<[Logits |-> out[1]],
                                   [Probas |-> torch_sigmoid(out)[1]]>>
    /\ UNCHANGED <<fn, arg, ret, origin, iters>>

\* the decoding cell: predict_levels and predicted_labels of probas
Cell11 ==
    /\ pc = "In[11]"
    /\ pc' = "In[12]"
    /\ globals' =
         Bind(globals,
              [predict_levels |-> Tensor2(predict_levels(globals.probas.data)),
               predicted_labels |->
                   Tensor1(predicted_labels(globals.probas.data))])
    /\ stdout' = Append(stdout, [Out11 |-> predicted_labels(globals.probas.data)])
    /\ UNCHANGED <<fn, arg, ret, origin, iters>>

\* the number of examples of the MNIST training set
MnistTrainSize == 60000

\* the datasets the notebook is run on: around 0..MaxSmallBatches full
\* batches, 150 and 151 full batches, and the MNIST training set
DatasetSizes ==
    {b * 128 + e : b \in 0..MaxSmallBatches, e \in {0, 1, 127}}
    \cup {150 * 128, 151 * 128, MnistTrainSize}

DataLoader_len_keep_last(n, batch_size) == (n + batch_size - 1) \div batch_size

\* len(DataLoader(dataset, batch_size, drop_last=True))
DataLoader_len(n, batch_size) == n \div batch_size

\* the number of examples of the batch with the index batch_idx
DataLoader_batch_size(n, batch_size, batch_idx) ==
    IF n - batch_idx * batch_size < batch_size
    THEN n - batch_idx * batch_size ELSE batch_size

DataLoader(dataset, batch_size) ==
    [dataset |-> dataset, batch_size |-> batch_size,
     len |-> DataLoader_len(dataset.len, batch_size)]

\* In[12]: the settings, the MNIST datasets and the data loaders; the first
\* batch of train_loader is printed (the test set is read by no later cell)
Cell12 ==
    /\ pc = "In[12]"
    /\ pc' = "In[13]"
    /\ \E n \in DatasetSizes :
        LET loader == DataLoader([len |-> n], 128)
        IN /\ globals' =
                Bind(globals,
                     [random_seed |-> 1,
                      learning_rate |-> 500,
                      num_epochs |-> 2,
                      batch_size |-> 128,
                      NUM_CLASSES |-> 10,
                      importance_weights |-> Tensor1(torch_ones(10 - 1)),
                      train_dataset |-> [len |-> n],
                      train_loader |-> loader])
           /\ stdout' =
                IF loader.len = 0 THEN stdout
                ELSE Append(stdout,
                            [images |-> <<DataLoader_batch_size(n, 128, 0), 1, 28, 28>>,
                             labels |-> <<DataLoader_batch_size(n, 128, 0)>>])
    /\ UNCHANGED <<fn, arg, ret, origin, iters>>

ConvNet_one_output_per_class(num_classes) ==
    [num_classes |-> num_classes,
     fc |-> [size |-> <<1, 294>>],
     linear_1_bias |-> [size |-> <<num_classes>>],
     grad |-> <<>>]

\* ConvNet(num_classes): fc has one output, linear_1_bias num_classes-1
\* entries; no gradient has been computed yet
ConvNet(num_classes) ==
    [num_classes |-> num_classes,
     fc |-> [size |-> <<1, 294>>],
     linear_1_bias |-> [size |-> <<num_classes - 1>>],
     grad |-> <<>>]

\* In[13]: model = ConvNet(num_classes=NUM_CLASSES) and its Adam optimizer
Cell13 ==
    /\ pc = "In[13]"
    /\ pc' = "In[14]"
    /\ globals' = Bind(globals,
                       [model |-> ConvNet(globals.NUM_CLASSES),
                        optimizer |-> [steps |-> 0, applied |-> <<>>]])
    /\ UNCHANGED <<fn, arg, ret, origin, stdout, iters>>

\* In[14], line 1: the loop over the epochs starts
StartTraining ==
    /\ pc = "In[14]"
    /\ pc' = "for epoch"
    /\ iters' = [epoch |-> 0, batch |-> 0]
    /\ UNCHANGED <<fn, arg, ret, origin, globals, stdout>>

\* for epoch in range(num_epochs): the next epoch starts with
\* model.train() and a new pass over train_loader, or the loop ends
ForEpoch ==
    /\ pc = "for epoch"
    /\ IF iters.epoch < globals.num_epochs
       THEN /\ globals' = Bind(globals, [epoch |-> iters.epoch])
            /\ iters' = [epoch |-> iters.epoch + 1, batch |-> 0]
            /\ pc' = "for batch"
       ELSE /\ iters' = NoIters
            /\ pc' = "In[15]"
            /\ UNCHANGED globals
    /\ UNCHANGED <<fn, arg, ret, origin, stdout>>

\* for batch_idx, (features, class_labels) in enumerate(train_loader)
ForBatch ==
    /\ pc = "for batch"
    /\ IF iters.batch < globals.train_loader.len
       THEN LET n == DataLoader_batch_size(globals.train_dataset.len,
                                           globals.train_loader.batch_size,
                                           iters.batch)
                batch == <<globals.epoch, iters.batch>>
            IN /\ globals' =
                    Bind(globals,
                         [batch_idx |-> iters.batch,
                          features |-> BatchTensor(<<n, 1, 28, 28>>, batch),
                          class_labels |-> BatchTensor(<<n>>, batch)])
               /\ iters' = [iters EXCEPT !.batch = iters.batch + 1]
               /\ pc' = "levels"
       ELSE /\ pc' = "for epoch"
            /\ UNCHANGED <<globals, iters>>
    /\ UNCHANGED <<fn, arg, ret, origin, stdout>>

\* CORAL label conversion: one label_to_levels(label, NUM_CLASSES) row per
\* label of the batch, stacked
ConvertLabels ==
    /\ pc = "levels"
    /\ pc' = "forward"
    /\ globals' =
         Bind(globals,
              [levels |->
                   BatchTensor(<<globals.class_labels.size[1],
                                 Len(label_to_levels(0, globals.NUM_CLASSES))>>,
                               globals.class_labels.batch)])
    /\ UNCHANGED <<fn, arg, ret, origin, stdout, iters>>

\* logits, probas = model(features)
Forward ==
    /\ pc = "forward"
    /\ pc' = "cost"
    /\ LET size == <<globals.features.size[1],
                     globals.model.linear_1_bias.size[1]>>
       IN globals' =
            Bind(globals,
                 [logits |-> BatchTensor(size, globals.features.batch),
                  probas |-> BatchTensor(size, globals.features.batch)])
    /\ UNCHANGED <<fn, arg, ret, origin, stdout, iters>>

\* the sizes of logits, levels and imp broadcast together
SizesBroadcast(logits, levels, imp) ==
    /\ Broadcastable(logits.size[1], levels.size[1])
    /\ Broadcastable(logits.size[2], levels.size[2])
    /\ Broadcastable(BroadcastDim(logits.size[2], levels.size[2]), imp.size[1])

\* cost = loss_fn2(logits, levels, imp=importance_weights)
ComputeCost ==
    /\ pc = "cost"
    /\ IF SizesBroadcast(globals.logits, globals.levels,
                         globals.importance_weights)
       THEN /\ globals' = Bind(globals,
                               [cost |-> [logits |-> globals.logits.batch,
                                          levels |-> globals.levels.batch]])
            /\ pc' = "zero_grad"
       ELSE /\ pc' = "RuntimeError"
            /\ UNCHANGED globals
    /\ UNCHANGED <<fn, arg, ret, origin, stdout, iters>>

zero_grad_skipped(grad) == grad

\* zero_grad(): the gradients of the parameters are cleared
zero_grad(grad) == <<>>

\* optimizer.zero_grad()
ZeroGrad ==
    /\ pc = "zero_grad"
    /\ pc' = "backward"
    /\ globals' = [globals EXCEPT !.model.grad = zero_grad(@)]
    /\ UNCHANGED <<fn, arg, ret, origin, stdout, iters>>

\* cost.backward(): the gradient of cost is added to the parameters' gradients
Backward ==
    /\ pc = "backward"
    /\ pc' = "step"
    /\ globals' = [globals EXCEPT !.model.grad = Append(@, globals.cost)]
    /\ UNCHANGED <<fn, arg, ret, origin, stdout, iters>>

\* optimizer.step(): one update of the parameters from their gradients
Step ==
    /\ pc = "step"
    /\ pc' = "logging"
    /\ globals' = [globals EXCEPT !.optimizer =
                      [steps |-> @.steps + 1, applied |-> globals.model.grad]]
    /\ UNCHANGED <<fn, arg, ret, origin, stdout, iters>>

\* if not batch_idx % 150: print the epoch, the batch and the cost
Logging ==
    /\ pc = "logging"
    /\ pc' = "for batch"
    /\ stdout' =
         IF globals.batch_idx % 150 = 0
         THEN Append(stdout, [Epoch |-> globals.epoch + 1,
                              Epochs |-> globals.num_epochs,
                              Batch |-> globals.batch_idx,
                              Batches |-> globals.train_loader.len,
                              Cost |-> globals.cost])
         ELSE stdout
    /\ UNCHANGED <<fn, arg, ret, origin, globals, iters>>

\* In[15]: the sizes of logits and levels are printed
Cell15 ==
    /\ pc = "In[15]"
    /\ pc' = "In[17]"
    /\ stdout' = Append(stdout, [Logits_size |-> globals.logits.size,
                                 Levels_size |-> globals.levels.size])
    /\ UNCHANGED <<fn, arg, ret, origin, globals, iters>>

\* In[17]: the number of bias units is printed (In[16], In[18] and In[19]
\* show the model's weights)
Cell17 ==
    /\ pc = "In[17]"
    /\ pc' = "done"
    /\ stdout' = Append(stdout,
                        [bias_units |-> globals.model.linear_1_bias.size])
    /\ UNCHANGED <<fn, arg, ret, origin, globals, iters>>

InitNotebook ==
    /\ pc = "In[2]"
    /\ fn = "notebook"
    /\ arg = NoCall
    /\ ret = NoCall
    /\ origin = NoCall
    /\ globals = NoGlobals
    /\ stdout = <<>>
    /\ iters = NoIters

NextNotebook ==
    \/ Cell2
    \/ Cell3
    \/ Cell5
    \/ Cell6
    \/ Cell8
    \/ Cell9
    \/ Cell10
    \/ Cell11
    \/ Cell12
    \/ Cell13
    \/ StartTraining
    \/ ForEpoch
    \/ ForBatch
    \/ ConvertLabels
    \/ Forward
    \/ ComputeCost
    \/ ZeroGrad
    \/ Backward
    \/ Step
    \/ Logging
    \/ Cell15
    \/ Cell17

SpecNotebook == InitNotebook /\ [][NextNotebook]_vars

\* the steps of In[14], the training loop
TrainingLoop ==
    \/ StartTraining
    \/ ForEpoch
    \/ ForBatch
    \/ ConvertLabels
    \/ Forward
    \/ ComputeCost
    \/ ZeroGrad
    \/ Backward
    \/ Step
    \/ Logging

\* once In[14] is run, the interpreter keeps taking the loop's next step
FairSpecNotebook == SpecNotebook /\ WF_vars(TrainingLoop)

\* ---------------------------------------------------------------------
\* Calls of the functions between rebindings of the notebook's variables

Result_with_notebook_NUM_CLASSES(f, a) ==
    CASE f = "label_to_levels" ->
            [raised |-> FALSE,
             value |-> label_to_levels(a.label, globals.NUM_CLASSES)]
      [] f = "loss_fn1" -> call_loss_fn1(a)
      [] f = "loss_fn2" -> call_loss_fn2(a)
      [] f = "predicted_labels" ->
            [raised |-> FALSE, value |-> predicted_labels(a.probas)]

\* what a call of f with the arguments a returns
Result(f, a) ==
    CASE f = "label_to_levels" ->
            [raised |-> FALSE, value |-> label_to_levels(a.label, a.num_classes)]
      [] f = "loss_fn1" -> call_loss_fn1(a)
      [] f = "loss_fn2" -> call_loss_fn2(a)
      [] f = "predicted_labels" ->
            [raised |-> FALSE, value |-> predicted_labels(a.probas)]

\* two values for each of the notebook's variables: the one bound by In[2],
\* In[3], In[5] and In[10], and another one
NotebookValues ==
    [NUM_CLASSES |-> {5, 10},
     levels |-> {Tensor2(stack_levels(ExampleClassLabels, 5)),
                 Tensor2(stack_levels(<<0>>, 10))},
     importance_weights |-> {Tensor1(torch_ones(4)), Tensor1(torch_ones(9))},
     logits |-> {Tensor2(ExampleLogits), Tensor2(<< <<21000>> >>)},
     probas |-> {Tensor2(ExampleProbas), Tensor2(<< <<Half>> >>)}]

\* the namespace after In[10]
NamespaceAfterCell10 ==
    [NUM_CLASSES |-> 5,
     levels |-> Tensor2(stack_levels(ExampleClassLabels, 5)),
     importance_weights |-> Tensor1(torch_ones(4)),
     logits |-> Tensor2(ExampleLogits),
     probas |-> Tensor2(ExampleProbas)]

\* one-example loss arguments with one threshold
SmallLossArgs ==
    {a \in WellShapedLossArgs : NumRows(a.logits) = 1 /\ NumCols(a.logits) = 1}

InitPure ==
    /\ pc = "called"
    /\ \/ /\ fn = "label_to_levels"
          /\ arg \in [label : LabelInputs, num_classes : ClassCountInputs]
       \/ /\ fn \in {"loss_fn1", "loss_fn2"}
          /\ arg \in SmallLossArgs
       \/ /\ fn = "predicted_labels"
          /\ arg \in [probas : Batches(ProbVals, 1, MaxLen)]
    /\ ret = NoCall
    /\ origin = NoCall
    /\ globals = NamespaceAfterCell10
    /\ stdout = <<>>
    /\ iters = NoIters

\* the call runs: the functions assign to no notebook variable and use no
\* in-place operation on their arguments
CallFunction ==
    /\ pc = "called"
    /\ pc' = "returned"
    /\ ret' = Result(fn, arg)
    /\ UNCHANGED <<fn, arg, origin, globals, stdout, iters>>

\* between two calls a cell rebinds one of the notebook's variables
Rebind ==
    /\ pc = "returned"
    /\ \E name \in DOMAIN NotebookValues :
        \E val \in NotebookValues[name] :
            /\ val # globals[name]
            /\ globals' = [globals EXCEPT ![name] = val]
    /\ UNCHANGED <<pc, fn, arg, ret, origin, stdout, iters>>

\* the same function is called again with the same arguments
CallFunctionAgain ==
    /\ pc = "returned"
    /\ pc' = "returned again"
    /\ ret' = Result(fn, arg)
    /\ origin' = [fn |-> fn, ret |-> ret]
    /\ UNCHANGED <<fn, arg, globals, stdout, iters>>

NextPure ==
    \/ CallFunction
    \/ Rebind
    \/ CallFunctionAgain

SpecPure == InitPure /\ [][NextPure]_vars

Returned(f) == pc = "returned" /\ fn = f

\* label_to_levels was called with K >= 2 classes and a label in 0..K-1
ValidEncoderCall ==
    /\ Returned("label_to_levels")
    /\ arg.num_classes >= 2
    /\ arg.label \in 0..(arg.num_classes - 1)

\* C1: for K >= 2 and 0 <= y <= K-1, label_to_levels(y, K) returns a vector
\* of length K-1 whose entry i is 1 when i < y and 0 otherwise (i = 0..K-2);
\* y = 0 gives the all-zero vector and y = K-1 the all-ones vector.
C1_LevelsContract ==
    ValidEncoderCall =>
        LET y == arg.label
            K == arg.num_classes
            v == ret.value
        IN  /\ ~ret.raised
            /\ Len(v) = K - 1
            /\ \A i \in 0..(K - 2) : v[i + 1] = IF i < y THEN One ELSE Zero
            /\ (y = 0 => \A i \in 1..(K - 1) : v[i] = Zero)
            /\ (y = K - 1 => \A i \in 1..(K - 1) : v[i] = One)

\* C1 witness: the notebook's label 4 of 5 classes returned the all-ones vector
C1_Witness ==
    /\ Returned("label_to_levels")
    /\ arg = [label |-> 4, num_classes |-> 5]
    /\ ret.value = <<One, One, One, One>>

\* C2: round trip: the levels of a label y in 0..K-1 (K >= 2), taken as the
\* probabilities of one example, decode to exactly y.
C2_RoundTrip ==
    ( /\ Returned("predicted_labels")
      /\ origin.fn = "label_to_levels"
      /\ origin.num_classes >= 2
      /\ origin.label \in 0..(origin.num_classes - 1) )
    => /\ ~ret.raised
       /\ ret.value = <<origin.label>>

\* C2 witness: the levels of label 2 of 5 classes were decoded to 2
C2_Witness ==
    /\ Returned("predicted_labels")
    /\ origin = [fn |-> "label_to_levels", label |-> 2, num_classes |-> 5]
    /\ arg.probas = << <<One, One, Zero, Zero>> >>
    /\ ret.value = <<2>>

\* C3: a call of label_to_levels with a label outside 0..K-1 (K >= 2) raises
\* an error and returns no vector.
C3_OutOfRangeLabelRaises ==
    ( /\ Returned("label_to_levels")
      /\ arg.num_classes >= 2
      /\ arg.label \notin 0..(arg.num_classes - 1) )
    => ret.raised

\* a loss function returned or raised
LossReturned ==
    /\ pc = "returned"
    /\ fn \in {"loss_fn1", "loss_fn2"}
    /\ "imp" \in DOMAIN arg

\* logits, levels and imp have the same number of entries per example
SameLengths ==
    /\ NumCols(arg.logits) = NumCols(arg.levels)
    /\ NumCols(arg.levels) = Len(arg.imp)

\* C4: a loss function raises an error whenever the score vector, the
\* threshold vector and the importance weights do not all have the same
\* length (here with no negative weight); it computes no loss by
\* broadcasting a shorter one.
C4_LengthMismatchRaises ==
    ( /\ LossReturned
      /\ ~SameLengths
      /\ \A i \in 1..Len(arg.imp) : arg.imp[i] >= 0 )
    => ret.raised

\* C5: a loss function raises an error whenever an importance weight is
\* negative (here with vectors of matching lengths); it returns no loss
\* computed with a negative weight.
C5_NegativeWeightRaises ==
    ( /\ LossReturned
      /\ SameLengths
      /\ \E i \in 1..Len(arg.imp) : arg.imp[i] < 0 )
    => ret.raised

\* C6: a call of label_to_levels with a class count K < 2 (here with the
\* label 0) raises an error and returns no vector, not even an empty one.
C6_ClassCountBelowTwoRaises ==
    ( /\ Returned("label_to_levels")
      /\ arg.num_classes < 2
      /\ arg.label = 0 )
    => ret.raised

\* the number of entries of a row that are strictly greater than 0.5
CountAboveHalf(row) == Cardinality({c \in 1..Len(row) : row[c] > Half})

\* C7: the decoder returns, for every example, the number of entries of its
\* probability row strictly greater than 0.5 (an entry equal to 0.5 is not
\* counted), monotone or not: the row [0.361, 0.606, 0.807, 0.919] gives 3.
C7_CountStrictlyAboveHalf ==
    Returned("predicted_labels") =>
        /\ ~ret.raised
        /\ Len(ret.value) = Len(arg.probas)
        /\ \A r \in 1..Len(arg.probas) :
              ret.value[r] = CountAboveHalf(arg.probas[r])
        /\ (arg.probas = ExampleProbas => ret.value = <<3>>)

\* C7 witness: the non-monotone example row was decoded to 3
C7_Witness ==
    /\ Returned("predicted_labels")
    /\ arg.probas = ExampleProbas
    /\ ret.value = <<3>>

\* every entry of the row is a probability
InUnitInterval(row) == \A c \in 1..Len(row) : Zero <= row[c] /\ row[c] <= One

\* C8: for K >= 2 and probabilities in [0,1]^(K-1), every predicted label is
\* an integer in 0..K-1.
C8_PredictedLabelInRange ==
    Returned("predicted_labels") =>
        \A r \in 1..Len(arg.probas) :
            (Len(arg.probas[r]) >= 1 /\ InUnitInterval(arg.probas[r]))
            => ret.value[r] \in 0..Len(arg.probas[r])

\* C8 witness: a batch of two examples decoded to the largest and the
\* smallest label of 4 classes
C8_Witness ==
    /\ Returned("predicted_labels")
    /\ arg.probas = << <<One, One, One>>, <<Zero, Half, Zero>> >>
    /\ ret.value = <<3, 0>>

\* the predicted label of a row of exact 0/1 probabilities was encoded with
\* the class count of that row
EncodedBinaryPrediction ==
    /\ Returned("label_to_levels")
    /\ origin.fn = "predicted_labels"
    /\ Len(origin.probas) >= 1
    /\ \A c \in 1..Len(origin.probas) : origin.probas[c] \in {Zero, One}

\* all 1s come before all 0s
NonIncreasing(row) ==
    \A i \in 1..Len(row) : \A j \in i..Len(row) : row[i] >= row[j]

\* C9 as stated: for every p in {0,1}^(K-1), label_to_levels(number of
\* entries of p above 0.5, K) equals p.
C9_EncoderInvertsDecoderOnBinary ==
    EncodedBinaryPrediction => ret.value = origin.probas

\* C9 amended: for every p in {0,1}^(K-1) that is non-increasing by index,
\* label_to_levels(number of entries of p above 0.5, K) equals p.
C9_EncoderInvertsDecoderOnMonotoneBinary ==
    (EncodedBinaryPrediction /\ NonIncreasing(origin.probas))
    => (~ret.raised /\ ret.value = origin.probas)

\* C9 witness: the row [1, 1, 0] was decoded to 2 and encoded back to itself
C9_Witness ==
    /\ EncodedBinaryPrediction
    /\ origin.probas = <<One, One, Zero>>
    /\ arg = [label |-> 2, num_classes |-> 4]
    /\ ret.value = <<One, One, Zero>>

\* C10: for K >= 2 and y in 0..K-1, label_to_levels(y, K) has length K-1,
\* holds only 0s and 1s, is non-increasing by index and sums to y.
C10_LevelsInvariant ==
    ValidEncoderCall =>
        LET v == ret.value
        IN  /\ Len(v) = arg.num_classes - 1
            /\ \A i \in 1..Len(v) : v[i] \in {Zero, One}
            /\ NonIncreasing(v)
            /\ SumTo(v, Len(v)) = arg.label * One

\* C10 witness: the notebook's label 2 of 5 classes returned [1, 1, 0, 0]
C10_Witness ==
    /\ Returned("label_to_levels")
    /\ origin = NoCall
    /\ arg = [label |-> 2, num_classes |-> 5]
    /\ ret.value = <<One, One, Zero, Zero>>

\* loss_fn2 returned on the arguments loss_fn1 had returned on before
LossPair ==
    /\ pc = "returned"
    /\ fn = "loss_fn2"
    /\ origin.fn = "loss_fn1"
    /\ "imp" \in DOMAIN arg

\* the tolerance 1e-5, in units of 1/Scale
Tolerance == Scale \div 100000

\* two loss values are numbers that differ by at most the tolerance
Agree(a, b) ==
    /\ IsFinite(a)
    /\ IsFinite(b)
    /\ a - b <= Tolerance
    /\ b - a <= Tolerance

\* a loss value that is 0.692 to three decimals
IsAbout0692(a) == 6915 <= a /\ a < 6925

\* no importance weight is negative
ValidWeights == \A c \in 1..Len(arg.imp) : arg.imp[c] >= 0

\* every logit lies between -2.1 and 2.1, every weight between 0 and 2
ModerateArgs ==
    /\ \A r \in 1..NumRows(arg.logits) : \A c \in 1..NumCols(arg.logits) :
          0 - 21000 <= arg.logits[r][c] /\ arg.logits[r][c] <= 21000
    /\ \A c \in 1..Len(arg.imp) :
          0 <= arg.imp[c] /\ arg.imp[c] <= 2 * One

LossOnEachExample ==
    /\ pc = "returned"
    /\ fn = "loss_fn2 on each example"
    /\ origin.fn = "loss_fn2"

\* a is the integer nearest to total / n
IsMeanOf(a, total, n) == 2 * (n * a - total) <= n /\ 2 * (total - n * a) <= n

\* C12: the loss of a batch of n >= 1 examples equals the arithmetic mean of
\* the n losses obtained by calling the loss function on each example alone
\* as a batch of one.
C12_BatchLossIsMeanOfExampleLosses ==
    LossOnEachExample =>
        /\ ~origin.ret.raised
        /\ Len(ret.values) = NumRows(arg.logits)
        /\ \A r \in 1..Len(ret.values) : IsFinite(ret.values[r])
        /\ IsFinite(origin.ret.value)
        /\ IsMeanOf(origin.ret.value,
                    SumTo(ret.values, Len(ret.values)), Len(ret.values))

\* C12 witness: a batch of two examples with the losses 0.1155 and 0.1530
\* had the loss 0.1343
C12_Witness ==
    /\ LossOnEachExample
    /\ arg = [logits |-> << <<21000>>, <<0 - 18000>> >>,
              levels |-> << <<One>>, <<Zero>> >>,
              imp |-> <<One>>]
    /\ ret.values = <<1155, 1530>>
    /\ origin.ret.value = 1343

\* a batch was run, and then run again with its examples reordered
BatchReordered ==
    /\ pc = "returned"
    /\ fn = "batch"
    /\ origin # NoCall

\* C13: for every permutation of the batch rows the predicted labels are the
\* same permutation of the original predicted labels, each example's
\* threshold vector (its levels and its thresholded probabilities) is
\* unchanged, and the batch loss is unchanged.
C13_ReorderingKeepsExampleResults ==
    BatchReordered =>
        /\ \A r \in 1..Len(origin.perm) :
            /\ ret.predicted_labels[r] = origin.ret.predicted_labels[origin.perm[r]]
            /\ ret.levels[r] = origin.ret.levels[origin.perm[r]]
            /\ ret.predict_levels[r] = origin.ret.predict_levels[origin.perm[r]]
            /\ ret.probas[r] = origin.ret.probas[origin.perm[r]]
        /\ ~ret.cost.raised
        /\ ~origin.ret.cost.raised
        /\ ret.cost.value = origin.ret.cost.value

\* C13 witness: two examples with different labels and different predictions
\* were swapped
C13_Witness ==
    /\ BatchReordered
    /\ origin.perm = <<2, 1>>
    /\ origin.arg.class_labels = <<0, 2>>
    /\ origin.ret.predicted_labels = <<2, 0>>
    /\ ret.predicted_labels = <<0, 2>>
    /\ ret.levels = << <<One, One>>, <<Zero, Zero>> >>

\* a loss function was called without importance weights
LossCalledWithoutImp ==
    /\ pc = "returned"
    /\ fn \in {"loss_fn1", "loss_fn2"}
    /\ "imp" \notin DOMAIN arg

\* C14: computing the loss without supplying importance weights succeeds
\* and gives the same value as supplying a vector of K-1 ones.
C14_ImportanceWeightsDefaultToOnes ==
    LossCalledWithoutImp =>
        /\ ~ret.raised
        /\ ret.value = loss_fn2(arg.logits, arg.levels,
                                ListRepeat(One, NumCols(arg.logits))).value

LayerReturned == pc = "returned" /\ fn = "coral_layer"

AllEqual(row) == \A i, j \in 1..Len(row) : row[i] = row[j]

\* C16: every example's K-1 scores are one shared value plus the
\* per-threshold bias; with an all-zero bias all scores and probabilities of
\* an example are equal, and for K = 5 and the shared score -0.57 the
\* predicted label is 0; with the bias [0,1,2,3] on the same shared score
\* the scores are [-0.57, 0.43, 1.43, 2.43] and the predicted label is 3.
C16_ScoresAreSharedValuePlusBias ==
    LayerReturned =>
        /\ \A r \in 1..Len(ret.logits) :
            /\ \A c \in 1..Len(arg.linear_1_bias) :
                  ret.logits[r][c] - arg.linear_1_bias[c]
                      = ret.logits[r][1] - arg.linear_1_bias[1]
            /\ (\A c \in 1..Len(arg.linear_1_bias) : arg.linear_1_bias[c] = Zero)
                  => AllEqual(ret.logits[r]) /\ AllEqual(ret.probas[r])
        /\ (arg.inputs = ExampleInputs /\ arg.weight = ExampleWeight
              /\ arg.linear_1_bias = ZeroBias)
              => /\ ret.logits[1] = <<0 - 5699, 0 - 5699, 0 - 5699, 0 - 5699>>
                 /\ ret.predicted_labels[1] = 0
        /\ (arg.inputs = ExampleInputs /\ arg.weight = ExampleWeight
              /\ arg.linear_1_bias = ExampleBias)
              => /\ ret.logits[1] = <<0 - 5699, 4301, 14301, 24301>>
                 /\ ret.probas[1] = <<3613, 6059, 8069, 9191>>
                 /\ ret.predicted_labels[1] = 3

\* C16 witness: the notebook's layer with the bias [0,1,2,3] predicted the
\* labels 3 and 4
C16_Witness ==
    /\ LayerReturned
    /\ arg.weight = ExampleWeight
    /\ arg.linear_1_bias = ExampleBias
    /\ ret.predicted_labels = <<3, 4>>

\* the boolean row as a tensor of 1.0 and 0.0
AsFloats(row) == [c \in 1..Len(row) |-> IF row[c] THEN One ELSE Zero]

\* the thresholded row is label_to_levels(number of its True entries, K)
IsLevelsOfItsCount(row) ==
    AsFloats(row) = label_to_levels(SumBools(row), Len(row) + 1)

\* the thresholded predictions of one example with the shared score g
ThresholdedAt(g, bias) ==
    predict_levels(torch_sigmoid(coral_logits(<<One>>, << <<g>> >>, bias)))[1]

\* C18: when the bias vector is non-increasing by index, for every shared
\* score the thresholded predictions (score > 0, equivalently probability
\* > 0.5) are a prefix of 1s followed by 0s, equal to
\* label_to_levels(predicted label, K); when the bias vector is not
\* non-increasing there is a shared score for which the thresholded vector
\* is not of that form.
C18_MonotoneBiasGivesRankConsistentPrediction ==
    LayerReturned =>
        /\ \A r \in 1..Len(ret.logits) : \A c \in 1..Len(ret.logits[r]) :
              ret.predict_levels[r][c] = (ret.logits[r][c] > 0)
        /\ NonIncreasing(arg.linear_1_bias) =>
              \A r \in 1..Len(ret.predict_levels) :
                  /\ IsLevelsOfItsCount(ret.predict_levels[r])
                  /\ AsFloats(ret.predict_levels[r])
                        = label_to_levels(ret.predicted_labels[r],
                                          Len(arg.linear_1_bias) + 1)
        /\ ~NonIncreasing(arg.linear_1_bias) =>
              \E g \in SharedScores :
                  ~IsLevelsOfItsCount(ThresholdedAt(g, arg.linear_1_bias))

\* C18 witness: with the non-increasing bias [1, 0, -1] the shared score 0
\* gave the thresholded vector [1, 0, 0], the levels of label 1
C18_Witness ==
    /\ LayerReturned
    /\ arg.linear_1_bias = <<One, Zero, 0 - One>>
    /\ arg.inputs = << <<Zero>> >>
    /\ ret.predict_levels = << <<TRUE, FALSE, FALSE>> >>
    /\ ret.predicted_labels = <<1>>

\* the notebook is about to call a loss function
AtLossCall == pc \in {"In[6]", "In[8]", "cost"}

\* C17: at every call of the loss function when the cells run top to bottom,
\* logits and levels have the same size, number of examples x
\* (NUM_CLASSES - 1), and importance_weights has NUM_CLASSES - 1 entries for
\* the NUM_CLASSES in effect; in the training loop the size is 128 x 9 on
\* every iteration.
C17_LossArgumentSizes ==
    AtLossCall =>
        /\ globals.logits.size = globals.levels.size
        /\ globals.logits.size[2] = globals.NUM_CLASSES - 1
        /\ globals.importance_weights.size = <<globals.NUM_CLASSES - 1>>
        /\ pc \in {"In[6]", "In[8]"} => 
              /\ globals.NUM_CLASSES = 5
              /\ globals.logits.size = <<Len(globals.class_labels.data), 4>>
        /\ pc = "cost" =>
              /\ globals.NUM_CLASSES = 10
              /\ globals.logits.size[1] = globals.batch_size
              /\ globals.logits.size = <<128, 9>>

\* C17 witness: the loss is about to be computed for the last batch of the
\* last epoch on MNIST, from 128 x 9 logits and levels
C17_Witness ==
    /\ pc = "cost"
    /\ globals.train_dataset.len = MnistTrainSize
    /\ globals.epoch = 1
    /\ globals.batch_idx = 467
    /\ globals.logits.size = <<128, 9>>
    /\ globals.levels.size = <<128, 9>>

\* the running iteration's batch
CurrentBatch == <<globals.epoch, globals.batch_idx>>
CurrentCost == [logits |-> CurrentBatch, levels |-> CurrentBatch]

\* one step of the loop body is followed by the next one and works on the
\* current batch
StepOrder ==
    /\ pc = "levels" =>
          pc' = "forward" /\ globals'.levels.batch = CurrentBatch
    /\ pc = "forward" =>
          pc' = "cost" /\ globals'.logits.batch = CurrentBatch
    /\ pc = "cost" =>
          pc' = "zero_grad" /\ globals'.cost = CurrentCost
    /\ pc = "zero_grad" =>
          pc' = "backward" /\ globals'.model.grad = <<>>
    /\ pc = "backward" =>
          pc' = "step" /\ globals'.model.grad = <<CurrentCost>>
    /\ pc = "step" =>
          /\ pc' = "logging"
          /\ globals'.optimizer.steps = globals.optimizer.steps + 1
          /\ globals'.optimizer.applied = <<CurrentCost>>
    /\ pc \in {"for epoch", "for batch", "levels", "forward", "cost",
               "zero_grad", "backward", "logging"} =>
          globals'.optimizer = globals.optimizer

IsLogLine(line) == "Batch" \in DOMAIN line
LogLines == SelectSeq(stdout, IsLogLine)

\* the number of batch indices below n that are multiples of 150
LoggedPerEpoch(n) == Cardinality({b \in 0..(n - 1) : b % 150 = 0})

\* the training loop has ended
TrainingEnded == pc \in {"In[15]", "In[17]", "done"}

InLoopBody ==
    pc \in {"levels", "forward", "cost", "zero_grad", "backward", "step",
            "logging"}

\* C20: the training loop terminates after exactly
\* num_epochs x floor(N / batch_size) iterations (2 x 468 on MNIST), every
\* batch has exactly batch_size examples, and the cost is logged exactly at
\* the batch indices that are multiples of 150 in each epoch.
C20_TrainingTerminates ==
    /\ (pc = "In[14]") ~> TrainingEnded
    /\ [](TrainingEnded =>
            LET n == globals.train_dataset.len \div globals.batch_size
                per == LoggedPerEpoch(n)
            IN /\ globals.optimizer.steps = globals.num_epochs * n
               /\ globals.train_dataset.len = MnistTrainSize =>
                     globals.optimizer.steps = 2 * 468
               /\ Len(LogLines) = globals.num_epochs * per
               /\ \A k \in 1..Len(LogLines) :
                     /\ LogLines[k].Epoch = ((k - 1) \div per) + 1
                     /\ LogLines[k].Batch = ((k - 1) % per) * 150)
    /\ [](InLoopBody => globals.class_labels.size = <<globals.batch_size>>)

\* C20 witness: the run on MNIST ended after 936 updates and 8 log lines
C20_Witness ==
    /\ pc = "done"
    /\ globals.train_dataset.len = MnistTrainSize
    /\ globals.optimizer.steps = 936
    /\ [k \in 1..Len(LogLines) |-> LogLines[k].Batch]
          = <<0, 150, 300, 450, 0, 150, 300, 450>>

\* a step in which a function is called
IsCall == pc = "called" \/ pc' = "returned again"

====
